---- MODULE Spec2Model ----
(***************************************************************************)
(* Image Automator v15.2 (src/app.py): the row processor process_row, the  *)
(* page scraper try_scrape_page, the image fetcher download_direct_image,  *)
(* the retrying HTTP session of create_robust_session, and the two batch   *)
(* handlers "Generate Excel" and "Generate PowerPoint".                    *)
(*                                                                         *)
(* Python strings are sequences of one-character strings, so that strip(), *)
(* lower(), startswith(), endswith() and the `in` substring test are       *)
(* computed on the characters as the code computes them.                   *)
(***************************************************************************)
EXTENDS Integers, Sequences, FiniteSets, TLC

\* ------------------------------------------------------------ bounds
\* Largest number of data rows of the uploaded sheet (len(df)).
MaxRows == 2

\* ------------------------------------------------------------ strings
Ext_jpg == <<".", "j", "p", "g">>
Ext_jpeg == <<".", "j", "p", "e", "g">>
Ext_png == <<".", "p", "n", "g">>
Ext_gif == <<".", "g", "i", "f">>
Ext_webp == <<".", "w", "e", "b", "p">>
Cdn_etsystatic == <<"e", "t", "s", "y", "s", "t", "a", "t", "i", "c">>
Cdn_xcdn == <<"x", "c", "d", "n">>
Cdn_potterybarn == <<"p", "o", "t", "t", "e", "r", "y", "b", "a", "r", "n">>
Cdn_cloudfront == <<"c", "l", "o", "u", "d", "f", "r", "o", "n", "t">>
Dom_etsy == <<"e", "t", "s", "y", ".", "c", "o", "m">>
Dom_next == <<"n", "e", "x", "t", ".", "c", "o", ".", "u", "k">>
Str_nan == <<"n", "a", "n">>
Str_image == <<"i", "m", "a", "g", "e">>
Str_slashslash == <<"/", "/">>
Str_slash == <<"/">>
Str_https_colon == <<"h", "t", "t", "p", "s", ":">>
Str_http_prefix == <<"h", "t", "t", "p", ":", "/", "/">>
Str_https_prefix == <<"h", "t", "t", "p", "s", ":", "/", "/">>
Str_scheme_sep == <<":", "/", "/">>
Img_padded == <<" ", "h", "t", "t", "p", "s", ":", "/", "/", "i", ".", "c", "o", "/", "a", ".", "j", "p", "g", " ">>
Img_upper == <<"h", "t", "t", "p", "s", ":", "/", "/", "i", ".", "c", "o", "/", "A", ".", "J", "P", "G">>
Img_cdn == <<"/", "/", "i", ".", "e", "t", "s", "y", "s", "t", "a", "t", "i", "c", ".", "c", "o", "m", "/", "i", "l">>
Img_noext == <<"h", "t", "t", "p", "s", ":", "/", "/", "i", ".", "c", "o", "/", "v", "i", "e", "w">>
Cell_blank == <<" ", " ">>
Url_page == <<"h", "t", "t", "p", "s", ":", "/", "/", "s", ".", "c", "o", "/", "p">>
Url_direct == <<"h", "t", "t", "p", "s", ":", "/", "/", "s", ".", "c", "o", "/", "b", ".", "P", "N", "G">>
Url_query == <<"h", "t", "t", "p", "s", ":", "/", "/", "s", ".", "c", "o", "/", "a", ".", "j", "p", "g", "?", "w", "=", "1">>
Url_etsy == <<"h", "t", "t", "p", "s", ":", "/", "/", "w", "w", "w", ".", "e", "t", "s", "y", ".", "c", "o", "m", "/", "l", "/", "1">>
Url_etsy_upper == <<"h", "t", "t", "p", "s", ":", "/", "/", "w", "w", "w", ".", "E", "T", "S", "Y", ".", "c", "o", "m", "/", "l", "/", "1">>
Url_next == <<"h", "t", "t", "p", "s", ":", "/", "/", "w", "w", "w", ".", "n", "e", "x", "t", ".", "c", "o", ".", "u", "k", "/", "p">>
Url_noscheme == <<"s", ".", "c", "o", "/", "p">>
Meta_abs == <<"h", "t", "t", "p", "s", ":", "/", "/", "e", "x", "a", "m", "p", "l", "e", ".", "c", "o", "m", "/", "a", ".", "j", "p", "g">>
Meta_abs2 == <<"h", "t", "t", "p", "s", ":", "/", "/", "c", "d", "n", ".", "c", "o", "/", "t", ".", "p", "n", "g">>
Meta_protoless == <<"/", "/", "c", ".", "c", "o", "/", "b", ".", "p", "n", "g">>
Meta_rooted == <<"/", "i", "/", "c", ".", "j", "p", "g">>
Meta_relative == <<"i", "/", "d", ".", "j", "p", "g">>
Ld_first == <<"h", "t", "t", "p", "s", ":", "/", "/", "e", "x", "a", "m", "p", "l", "e", ".", "c", "o", "m", "/", "b", ".", "j", "p", "g">>
Ld_second == <<"h", "t", "t", "p", "s", ":", "/", "/", "e", "x", "a", "m", "p", "l", "e", ".", "c", "o", "m", "/", "c", ".", "j", "p", "g">>
Ct_png_upper == <<"I", "m", "a", "g", "e", "/", "P", "N", "G">>
Ct_html == <<"t", "e", "x", "t", "/", "h", "t", "m", "l">>

\* Python's None, and the missing cell pandas reads as NaN.  Both are one-element
\* sequences whose element is no character, so no Python string equals them.
None == <<"<None>">>
NaN == <<"<NaN>">>

UpperLetters == <<"A","B","C","D","E","F","G","H","I","J","K","L","M",
                  "N","O","P","Q","R","S","T","U","V","W","X","Y","Z">>
LowerLetters == <<"a","b","c","d","e","f","g","h","i","j","k","l","m",
                  "n","o","p","q","r","s","t","u","v","w","x","y","z">>
Whitespace == {" ", "\t", "\n", "\r"}

\* str.lower()
UpperSet == {UpperLetters[j] : j \in 1..Len(UpperLetters)}
LowerOf == [c \in UpperSet |->
              LowerLetters[CHOOSE j \in 1..Len(UpperLetters) : UpperLetters[j] = c]]
Lower(s) == [k \in 1..Len(s) |-> IF s[k] \in UpperSet THEN LowerOf[s[k]] ELSE s[k]]

\* str.strip(): leading and trailing whitespace removed
Strip(s) ==
  LET keep == {k \in 1..Len(s) : s[k] \notin Whitespace}
  IN  IF keep = {} THEN <<>>
      ELSE LET lo == CHOOSE k \in keep : \A m \in keep : k <= m
               hi == CHOOSE k \in keep : \A m \in keep : k >= m
           IN  SubSeq(s, lo, hi)

\* sub in s
Contains(s, sub) ==
  LET str == s
  IN  \E k \in 0..(Len(str) - Len(sub)) : SubSeq(str, k + 1, k + Len(sub)) = sub

\* s.startswith(p)
StartsWith(s, p) == Len(p) <= Len(s) /\ SubSeq(s, 1, Len(p)) = p

\* s.endswith(p)
EndsWith(s, p) == Len(p) <= Len(s) /\ SubSeq(s, Len(s) - Len(p) + 1, Len(s)) = p

\* Python truthiness of an optional string: None and "" are false
Truthy(v) == v # None /\ v # <<>>

\* ------------------------------------------------------------ process_row, pure parts
\* line 240: the substrings that make an IMAGE URL value look like an image
ImageHints == {Ext_jpg, Ext_jpeg, Ext_png, Ext_gif, Ext_webp,
               Cdn_etsystatic, Cdn_xcdn, Cdn_potterybarn, Cdn_cloudfront}

\* line 256: the suffixes that make the URL value a direct image
ImageExts == {Ext_jpg, Ext_jpeg, Ext_png, Ext_gif, Ext_webp}

\* lines 219-226: str(value).strip() if pd.notna(value) else None, then 'nan' -> None
Clean(cell) ==
  IF cell = NaN \/ cell = None THEN None
  ELSE LET s == Strip(cell) IN IF s = Str_nan THEN None ELSE s

\* lines 239-240: any(x in image_url_value.lower() for x in [...])
is_image_url(v) == LET low == Lower(v) IN \E x \in ImageHints : Contains(low, x)

\* line 256: url_value.lower().endswith((...))
IsDirectImage(u) == LET low == Lower(u) IN \E e \in ImageExts : EndsWith(low, e)

\* line 98: "etsy.com" in url or "next.co.uk" in url
IsExcluded(u) == Contains(u, Dom_etsy) \/ Contains(u, Dom_next)

\* session.get on a URL no mounted adapter serves (lines 38-39 mount 'http://' and
\* 'https://' only): requests raises MissingSchema / InvalidSchema, a
\* RequestException, before any connection is made.
Fetchable(u) ==
  LET low == Lower(u)
  IN  StartsWith(low, Str_http_prefix) \/ StartsWith(low, Str_https_prefix)

\* ------------------------------------------------------------ try_scrape_page, pure parts
\* lines 135-141: the meta names, in the order they are tried
meta_properties == <<"og:image", "twitter:image", "og:image:secure_url",
                     "og:image:url", "twitter:image:src">>

\* A <meta> element of the page: the attribute that names it (property= or name=),
\* that attribute's value, and its content attribute (None when it has none).
Tag(attr, key, content) == [attr |-> attr, key |-> key, content |-> content]
NoTag == Tag("none", "", None)

\* soup.find("meta", <attr>=prop): the first such element in document order
FindBy(metas, attr, prop) ==
  LET at == {k \in 1..Len(metas) : metas[k].attr = attr /\ metas[k].key = prop}
  IN  IF at = {} THEN NoTag
      ELSE metas[CHOOSE k \in at : \A m \in at : k <= m]

\* lines 145-148: by property first, by name only when no property element exists
FindMeta(metas, prop) ==
  IF FindBy(metas, "property", prop) # NoTag THEN FindBy(metas, "property", prop)
  ELSE FindBy(metas, "name", prop)

\* urljoin(url, path) for a path that starts with one "/": the scheme (lowercased by
\* urlsplit) and the network location of url, then the path.  url is an http(s) URL
\* here, since session.get accepted it.
urljoin(url, path) ==
  LET seps == {k \in 1..(Len(url) - 2) : SubSeq(url, k, k + 2) = Str_scheme_sep}
      sep == CHOOSE k \in seps : \A m \in seps : k <= m
      ends == {k \in (sep + 3)..Len(url) : url[k] \in {"/", "?", "#"}}
      stop == IF ends = {} THEN Len(url)
              ELSE (CHOOSE k \in ends : \A m \in ends : k <= m) - 1
  IN  Lower(SubSeq(url, 1, sep - 1)) \o SubSeq(url, sep, stop) \o path

\* lines 153-158: "Make absolute URL"
MakeAbsolute(img_url, url) ==
  IF StartsWith(img_url, Str_slashslash) THEN Str_https_colon \o img_url
  ELSE IF StartsWith(img_url, Str_slash) THEN urljoin(url, img_url)
  ELSE img_url

\* line 150: meta and meta.get("content")
MetaHit(metas, k) ==
  LET meta == FindMeta(metas, meta_properties[k])
  IN  meta # NoTag /\ Truthy(meta.content)

\* lines 143-162: the first listed name whose element has non-empty content
MetaScan(metas, url) ==
  LET hits == {k \in 1..Len(meta_properties) : MetaHit(metas, k)}
  IN  IF hits = {} THEN None
      ELSE MakeAbsolute(FindMeta(metas, meta_properties[
             CHOOSE k \in hits : \A m \in hits : k <= m]).content, url)

\* A JSON value's 'image' member: absent, a string, a list of strings, or an object
\* (anything that is neither a string nor a list).
ImgAbsent == [k |-> "absent", v |-> <<>>]
ImgStr(s) == [k |-> "str", v |-> <<s>>]
ImgList(l) == [k |-> "list", v |-> l]
ImgObj == [k |-> "obj", v |-> <<>>]
\* One JSON value of a block: a dict with its 'image', or anything else.
JDict(img) == [isDict |-> TRUE, img |-> img]
JOther == [isDict |-> FALSE, img |-> ImgAbsent]
\* A <script type="application/ld+json"> block: text json.loads rejects, a dict,
\* a list of values, or a scalar.
LdInvalid == [t |-> "invalid", items |-> <<>>]
LdDict(img) == [t |-> "dict", items |-> <<JDict(img)>>]
LdArray(items) == [t |-> "list", items |-> items]
LdScalar == [t |-> "scalar", items |-> <<>>]

\* lines 176-185 and 186-195: the value returns when 'image' is a string (even an
\* empty one) or a non-empty list
ItemReturns(item) ==
  /\ item.isDict
  /\ \/ item.img.k = "str"
     \/ item.img.k = "list" /\ Len(item.img.v) > 0
ItemValue(item) == item.img.v[1]

\* lines 168-197, one block
ScriptReturns(script) ==
  /\ script.t \in {"dict", "list"}
  /\ \E k \in 1..Len(script.items) : ItemReturns(script.items[k])
ScriptValue(script) ==
  LET at == {k \in 1..Len(script.items) : ItemReturns(script.items[k])}
  IN  ItemValue(script.items[CHOOSE k \in at : \A m \in at : k <= m])

\* lines 168-197: the first block that returns
LdScan(scripts) ==
  LET at == {k \in 1..Len(scripts) : ScriptReturns(scripts[k])}
  IN  IF at = {} THEN None
      ELSE ScriptValue(scripts[CHOOSE k \in at : \A m \in at : k <= m])

\* try_scrape_page as it would be with the JSON-LD scan placed before the meta scan
ParsePageLdFirst(page, url) ==
  LET l == LdScan(page.ld)
  IN  IF l # None THEN l ELSE MetaScan(page.metas, url)

\* lines 132-209 for a page fetched with status 200: meta tags, then JSON-LD
ParsePage(page, url) ==
  LET m == MetaScan(page.metas, url)
  IN  IF m # None THEN m ELSE LdScan(page.ld)

\* The strategies ParsePage ran with what each yielded, for the row's trace.
ParseTrace(page, url) ==
  LET m == MetaScan(page.metas, url)
  IN  IF m # None
      THEN << [s |-> "meta", got |-> m] >>
      ELSE << [s |-> "meta", got |-> None],
              [s |-> "jsonld", got |-> LdScan(page.ld)] >>

\* ------------------------------------------------------------ inputs
\* Cells of the IMAGE URL column and of the URL column of the uploaded sheet.
ImageCells == {NaN, Str_nan, Cell_blank, Img_padded, Img_upper, Img_cdn, Img_noext}
UrlCells == {NaN, Str_nan, Cell_blank, Url_page, Url_direct, Url_query,
             Url_etsy, Url_etsy_upper, Url_next, Url_noscheme}

\* The <meta> elements and JSON-LD blocks of a product page served with status 200:
\* no element, one element of any listed name, two elements, and JSON-LD blocks
\* beside no, an empty or a filled meta element.
MetaContents == {None, <<>>, Meta_abs, Meta_abs2, Meta_protoless, Meta_rooted,
                 Meta_relative}
MetaAttrs == {"property", "name"}
PairKeys == {"og:image", "twitter:image", "twitter:image:src"}
OneTag == {<<Tag(a, meta_properties[k], c)>> :
             a \in MetaAttrs, k \in 1..Len(meta_properties), c \in MetaContents}
TwoTags == {<<Tag(a1, k1, c1), Tag(a2, k2, c2)>> :
              a1 \in MetaAttrs, k1 \in PairKeys, c1 \in {<<>>, Meta_abs},
              a2 \in MetaAttrs, k2 \in PairKeys, c2 \in {<<>>, Meta_abs2}}
LdBlocks == {LdInvalid, LdScalar, LdDict(ImgAbsent), LdDict(ImgStr(Ld_first)),
             LdDict(ImgStr(<<>>)), LdDict(ImgList(<<Ld_first, Ld_second>>)),
             LdDict(ImgList(<<>>)), LdDict(ImgObj), LdArray(<<>>),
             LdArray(<<JOther, JDict(ImgAbsent), JDict(ImgStr(Ld_second))>>)}
LdLists == {<<b>> : b \in LdBlocks}
             \cup {<<b1, b2>> : b1 \in LdBlocks,
                                b2 \in {LdDict(ImgAbsent), LdDict(ImgStr(Ld_second))}}
Pages ==
  {[metas |-> m, ld |-> <<>>] : m \in {<<>>} \cup OneTag \cup TwoTags}
  \cup {[metas |-> <<>>, ld |-> l] : l \in LdLists}
  \cup {[metas |-> m, ld |-> <<b>>] :
          m \in {<<Tag("property", "og:image", <<>>)>>,
                 <<Tag("name", "twitter:image", Meta_abs)>>},
          b \in LdBlocks}

\* What one HTTP attempt can end in: a response with a status, with or without a
\* Retry-After header, or a transport error (no response).
Statuses == {200, 404, 413, 429, 501, 503}
TransportErrors == {"timeout", "connection"}
Response(status, ra) == [kind |-> "response", status |-> status, retry_after |-> ra]
TransportError(e) == [kind |-> e, status |-> 0, retry_after |-> FALSE]
Outcomes == {Response(s, ra) : s \in Statuses, ra \in BOOLEAN}
            \cup {TransportError(e) : e \in TransportErrors}

\* The body of an image response: what Content-Type declares, how many bytes, and
\* what Image.open makes of them ("html": not an image, else the decoded mode).
ContentTypes == {Ct_png_upper, Ct_html, <<>>}
Lengths == {999, 1000}
Bodies == {"html", "RGB", "P", "CMYK"}
NoBody == [status |-> 0, ctype |-> <<>>, length |-> 0, body |-> "none"]

\* ------------------------------------------------------------ create_robust_session
\* line 31: Retry(total=5)
RetryTotal == 5
\* line 33: status_forcelist
status_forcelist == {429, 500, 502, 503, 504}
\* urllib3 Retry.RETRY_AFTER_STATUS_CODES, honoured because Retry(...) at lines
\* 30-35 leaves respect_retry_after_header at its default (True)
RETRY_AFTER_STATUS_CODES == {413, 429, 503}

\* Retry.is_retry for a GET (line 34 allows GET): a forcelisted status, or a
\* Retry-After status with the header while retries remain (total is truthy)
is_retry(status, has_retry_after, left) ==
  \/ status \in status_forcelist
  \/ left # 0 /\ has_retry_after /\ status \in RETRY_AFTER_STATUS_CODES

\* Retry.increment then is_exhausted: the attempt that finds total at 0 is the last
Exhausted(left) == left - 1 < 0

\* ------------------------------------------------------------ state
VARIABLES
  url_col,          \* whether a URL column is selected (lines 317-324)
  image_url_col,    \* whether an IMAGE URL column is selected (lines 327-334)
  total,            \* len(df)
  mode,             \* the button whose handler runs: "idle", "excel", "ppt"
  pc,               \* where the handler is
  i,                \* the index of the row the loop is at
  row,              \* the row being processed
  final_image_url,  \* what process_row returned for it
  ran,              \* the strategies that ran for the row, with what each yielded
  netcalls,         \* HTTP attempts made while resolving the row (inside process_row)
  downloads,        \* calls of download_direct_image for the row
  retries,          \* Retry.total left for the request in flight
  attempts,         \* HTTP attempts made for the request in flight
  last,             \* the status of the response urllib3 last retried (0: none, or no response)
  resp,             \* the image response session.get returned at line 65
  img,              \* what download_direct_image returned: "None" or the image's mode
  log,              \* the last line download_direct_image printed
  count,            \* images added (line 386 / 437)
  failed,           \* sheet rows that got no image (line 387), Excel only
  placed,           \* sheet rows an image was added at (line 406), Excel only
  slides,           \* row indices a slide was added for (line 447), PowerPoint only
  report            \* what the handler showed when it ended

vars == <<url_col, image_url_col, total, mode, pc, i, row, final_image_url, ran,
          netcalls, downloads, retries, attempts, last, resp, img, log,
          count, failed, placed, slides, report>>
config == <<url_col, image_url_col, total>>
request == <<retries, attempts, last>>
output == <<count, failed, placed, slides, report>>

NoRow == [url |-> None, image |-> None]
NoReport == [kind |-> "none", count |-> 0, total |-> 0, nfailed |-> 0,
             listed |-> FALSE, rows |-> <<>>]

Init ==
  /\ url_col \in BOOLEAN
  /\ image_url_col \in BOOLEAN
  /\ total \in 0..MaxRows
  /\ mode = "idle"
  /\ pc = "idle"
  /\ i = 0
  /\ row = NoRow
  /\ final_image_url = None
  /\ ran = <<>>
  /\ netcalls = 0
  /\ downloads = 0
  /\ retries = 0
  /\ attempts = 0
  /\ last = 0
  /\ resp = NoBody
  /\ img = "None"
  /\ log = "none"
  /\ count = 0
  /\ failed = <<>>
  /\ placed = {}
  /\ slides = <<>>
  /\ report = NoReport

\* What a row's variables are between rows.
RowReset ==
  /\ row' = NoRow
  /\ final_image_url' = None
  /\ ran' = <<>>
  /\ netcalls' = 0
  /\ downloads' = 0
  /\ retries' = 0
  /\ attempts' = 0
  /\ last' = 0
  /\ resp' = NoBody
  /\ img' = "None"
  /\ log' = "none"

\* ------------------------------------------------------------ the buttons
\* lines 376-377 and 431-432: no source column selected
ClickNoColumns ==
  /\ pc = "idle"
  /\ ~url_col /\ ~image_url_col
  /\ \E m \in {"excel", "ppt"} : mode' = m
  /\ pc' = "refused"
  /\ report' = [NoReport EXCEPT !.kind = "error"]
  /\ UNCHANGED <<config, i, row, final_image_url, ran, netcalls, downloads,
                 request, resp, img, log, count, failed, placed, slides>>

\* lines 375-388: Generate Excel starts its loop
ClickExcel ==
  /\ pc = "idle"
  /\ url_col \/ image_url_col
  /\ mode' = "excel"
  /\ pc' = "loop"
  /\ count' = 0
  /\ failed' = <<>>
  /\ UNCHANGED <<config, i, row, final_image_url, ran, netcalls, downloads,
                 request, resp, img, log, placed, slides, report>>

\* lines 430-437: Generate PowerPoint starts its loop
ClickPpt ==
  /\ pc = "idle"
  /\ url_col \/ image_url_col
  /\ mode' = "ppt"
  /\ pc' = "loop"
  /\ count' = 0
  /\ UNCHANGED <<config, i, row, final_image_url, ran, netcalls, downloads,
                 request, resp, img, log, failed, placed, slides, report>>

\* ------------------------------------------------------------ process_row
\* lines 215-216: what is read of a row, None for a column that is not selected
Rows == [url : IF url_col THEN UrlCells ELSE {None},
         image : IF image_url_col THEN ImageCells ELSE {None}]

\* lines 219-226: the two cleaned values of a row
url_value(r) == Clean(r.url)
image_url_value(r) == Clean(r.image)

\* process_row as it would be without the is_image_url test of line 242
AcceptedAnyValue(r) == Truthy(image_url_value(r))

\* lines 234-243: the IMAGE URL value is taken
Accepted(r) == LET v == image_url_value(r) IN Truthy(v) /\ is_image_url(v)

\* process_row as it would be without the `not final_image_url` test of line 251
UsesUrlColumnRegardless(r) == Truthy(url_value(r))

\* line 251: the URL column is consulted
UsesUrlColumn(r) == ~Accepted(r) /\ Truthy(url_value(r))

\* lines 256-262 and 98-123: try_scrape_page is called and issues its GET
Scrapes(r) ==
  LET u == url_value(r)
  IN  /\ UsesUrlColumn(r)
      /\ ~IsDirectImage(u)
      /\ ~IsExcluded(u)
      /\ Fetchable(u)

\* What process_row returns without any page fetched.
ResolvedOffline(r) ==
  IF Accepted(r) THEN image_url_value(r)
  ELSE IF UsesUrlColumn(r) /\ IsDirectImage(url_value(r)) THEN url_value(r)
  ELSE None

\* The strategies that run before any page is fetched.
OfflineTrace(r) ==
  (IF Truthy(image_url_value(r))
   THEN << [s |-> "image_column",
            got |-> IF is_image_url(image_url_value(r))
                    THEN image_url_value(r) ELSE None] >>
   ELSE <<>>)
  \o
  (IF UsesUrlColumn(r)
   THEN << [s |-> "direct_link",
            got |-> IF IsDirectImage(url_value(r)) THEN url_value(r) ELSE None] >>
   ELSE <<>>)

\* lines 395 / 440, 211-264, 94-123: the loop takes the next row and process_row runs
\* up to its return, or up to the GET of try_scrape_page
ProcessRow ==
  /\ pc = "loop"
  /\ i < total
  /\ \E r \in Rows :
       /\ row' = r
       /\ ran' = OfflineTrace(r)
       /\ IF Scrapes(r)
          THEN /\ pc' = "page_get"
               /\ retries' = RetryTotal
               /\ final_image_url' = None
          ELSE /\ pc' = "resolved"
               /\ retries' = 0
               /\ final_image_url' = ResolvedOffline(r)
  /\ netcalls' = 0
  /\ downloads' = 0
  /\ attempts' = 0
  /\ last' = 0
  /\ UNCHANGED <<config, mode, i, resp, img, log, output>>

\* urllib3's urlopen for one attempt that ended in `out` with `left` retries left:
\* the attempt is retried, the request raises, or the response is returned
Retried(out, left) ==
  /\ out.kind = "response" => is_retry(out.status, out.retry_after, left)
  /\ ~Exhausted(left)
Raised(out, left) ==
  /\ out.kind = "response" => is_retry(out.status, out.retry_after, left)
  /\ Exhausted(left)
Returned(out, left) ==
  /\ out.kind = "response"
  /\ ~is_retry(out.status, out.retry_after, left)

\* line 123: an attempt of the page GET that urllib3 retries
PageRetry ==
  /\ pc = "page_get"
  /\ \E out \in Outcomes :
       /\ Retried(out, retries)
       /\ last' = out.status
  /\ retries' = retries - 1
  /\ attempts' = attempts + 1
  /\ netcalls' = netcalls + 1
  /\ UNCHANGED <<config, mode, pc, i, row, final_image_url, ran, downloads,
                 resp, img, log, output>>

\* lines 123 and 202-209: the page GET raises (retries used up) and
\* try_scrape_page returns None
PageFails ==
  /\ pc = "page_get"
  /\ \E out \in Outcomes : Raised(out, retries)
  /\ netcalls' = netcalls + 1
  /\ final_image_url' = None
  /\ pc' = "resolved"
  /\ retries' = 0 /\ attempts' = 0 /\ last' = 0
  /\ UNCHANGED <<config, mode, i, row, ran, downloads, resp, img, log, output>>

\* lines 128-130: a response that is not 200
PageBadStatus ==
  /\ pc = "page_get"
  /\ \E out \in Outcomes : Returned(out, retries) /\ out.status # 200
  /\ netcalls' = netcalls + 1
  /\ final_image_url' = None
  /\ pc' = "resolved"
  /\ retries' = 0 /\ attempts' = 0 /\ last' = 0
  /\ UNCHANGED <<config, mode, i, row, ran, downloads, resp, img, log, output>>

\* lines 132-209: a 200 page is parsed
PageParsed ==
  /\ pc = "page_get"
  /\ Returned(Response(200, FALSE), retries)
  /\ \E page \in Pages :
       LET url == url_value(row)
       IN  /\ final_image_url' = ParsePage(page, url)
           /\ ran' = ran \o ParseTrace(page, url)
  /\ netcalls' = netcalls + 1
  /\ pc' = "resolved"
  /\ retries' = 0 /\ attempts' = 0 /\ last' = 0
  /\ UNCHANGED <<config, mode, i, row, downloads, resp, img, log, output>>

\* ------------------------------------------------------------ download_direct_image
\* line 70: the byte length under which a non-image content type is rejected
MinImageBytes == 1000
\* line 76: the modes converted to RGB
ConvertedModes == {"RGBA", "P", "LA"}
\* img.save(buf, format='PNG') at lines 403 / 449: the modes Pillow's PNG writer
\* accepts; any other mode raises OSError
PngModes == {"1", "L", "LA", "I", "I;16", "P", "RGB", "RGBA"}

\* lines 62-63: a protocol-less URL gets https:
DownloadUrl(u) ==
  IF StartsWith(u, Str_slashslash) THEN Str_https_colon \o u ELSE u

\* lines 398 / 443 and 43-65: download_direct_image is called and issues its GET, or
\* session.get raises at once on a URL it cannot serve
StartDownload ==
  /\ pc = "resolved"
  /\ Truthy(final_image_url)
  /\ downloads' = downloads + 1
  /\ netcalls' = 0
  /\ attempts' = 0
  /\ last' = 0
  /\ IF Fetchable(DownloadUrl(final_image_url))
     THEN /\ pc' = "image_get"
          /\ retries' = RetryTotal
          /\ log' = log
     ELSE /\ pc' = "outcome"
          /\ retries' = 0
          /\ log' = "request_failed"
  /\ UNCHANGED <<config, mode, i, row, final_image_url, ran, resp, img, output>>

\* line 65: an attempt of the image GET that urllib3 retries
ImageRetry ==
  /\ pc = "image_get"
  /\ \E out \in Outcomes :
       /\ Retried(out, retries)
       /\ last' = out.status
  /\ retries' = retries - 1
  /\ attempts' = attempts + 1
  /\ UNCHANGED <<config, mode, pc, i, row, final_image_url, ran, netcalls,
                 downloads, resp, img, log, output>>

\* lines 65 and 84-89: the image GET raises (retries used up) and
\* download_direct_image returns None
ImageFails ==
  /\ pc = "image_get"
  /\ \E out \in Outcomes :
       /\ Raised(out, retries)
       /\ log' = IF out.kind = "timeout" THEN "timeout" ELSE "request_failed"
  /\ img' = "None"
  /\ pc' = "outcome"
  /\ retries' = 0 /\ attempts' = 0 /\ last' = 0
  /\ UNCHANGED <<config, mode, i, row, final_image_url, ran, netcalls,
                 downloads, resp, output>>

\* line 65: session.get returns a 200 response
ImageResponse ==
  /\ pc = "image_get"
  /\ Returned(Response(200, FALSE), retries)
  /\ \E ct \in ContentTypes, n \in Lengths, b \in Bodies :
       resp' = [status |-> 200, ctype |-> ct, length |-> n, body |-> b]
  /\ pc' = "verify"
  /\ retries' = 0 /\ attempts' = 0 /\ last' = 0
  /\ UNCHANGED <<config, mode, i, row, final_image_url, ran, netcalls,
                 downloads, img, log, output>>

\* line 65: session.get returns a response with another status (an error page)
ImageErrorResponse ==
  /\ pc = "image_get"
  /\ \E out \in Outcomes :
       /\ Returned(out, retries)
       /\ out.status # 200
       /\ resp' = [status |-> out.status, ctype |-> Ct_html, length |-> 999,
                   body |-> "html"]
  /\ pc' = "verify"
  /\ retries' = 0 /\ attempts' = 0 /\ last' = 0
  /\ UNCHANGED <<config, mode, i, row, final_image_url, ran, netcalls,
                 downloads, img, log, output>>

\* line 66: raise_for_status raises on 4xx and 5xx
RaisesForStatus(status) == status >= 400

\* lines 69-70: 'image' not in content_type and len(r.content) < 1000
LooksNotImage(r) ==
  ~Contains(Lower(r.ctype), Str_image) /\ r.length < MinImageBytes

\* lines 66-72: the status and the sanity check
Verify ==
  /\ pc = "verify"
  /\ IF RaisesForStatus(resp.status)
     THEN /\ log' = "request_failed"
          /\ pc' = "outcome"
          /\ resp' = NoBody
     ELSE IF LooksNotImage(resp)
     THEN /\ log' = "not_image"
          /\ pc' = "outcome"
          /\ resp' = NoBody
     ELSE /\ log' = log
          /\ pc' = "decode"
          /\ resp' = resp
  /\ img' = "None"
  /\ UNCHANGED <<config, mode, i, row, final_image_url, ran, netcalls,
                 downloads, request, output>>

\* lines 76-77
Converted(m) == IF m \in ConvertedModes THEN "RGB" ELSE m

\* lines 74-82 and 90-92: Image.open, the mode conversion and the resize
Decode ==
  /\ pc = "decode"
  /\ IF resp.body = "html"
     THEN /\ img' = "None"
          /\ log' = "error"
     ELSE /\ img' = Converted(resp.body)
          /\ log' = "success"
  /\ resp' = NoBody
  /\ pc' = "outcome"
  /\ UNCHANGED <<config, mode, i, row, final_image_url, ran, netcalls,
                 downloads, request, output>>

\* ------------------------------------------------------------ the loops' bodies
\* lines 400-407 (Excel) and 445-454 (PowerPoint): the image is added
PlaceImage ==
  /\ pc = "outcome"
  /\ img # "None"
  /\ img \in PngModes
  /\ count' = count + 1
  /\ IF mode = "excel"
     THEN /\ placed' = placed \cup {i + 2}
          /\ slides' = slides
     ELSE /\ slides' = Append(slides, i)
          /\ placed' = placed
  /\ i' = i + 1
  /\ pc' = "loop"
  /\ RowReset
  /\ UNCHANGED <<config, mode, failed, report>>

\* lines 401-403 (Excel) and 446-449 (PowerPoint): count is incremented, then
\* img.save raises on a mode PNG cannot hold; nothing in the handler catches it
SaveRaises ==
  /\ pc = "outcome"
  /\ img # "None"
  /\ img \notin PngModes
  /\ count' = count + 1
  /\ pc' = "crashed"
  /\ UNCHANGED <<config, mode, i, row, final_image_url, ran, netcalls, downloads,
                 request, resp, img, log, failed, placed, slides, report>>

\* lines 408-409 (Excel; PowerPoint has no else): the download returned None
DownloadFailed ==
  /\ pc = "outcome"
  /\ img = "None"
  /\ failed' = IF mode = "excel" THEN Append(failed, i + 2) ELSE failed
  /\ i' = i + 1
  /\ pc' = "loop"
  /\ RowReset
  /\ UNCHANGED <<config, mode, count, placed, slides, report>>

\* lines 410-411 (Excel; PowerPoint has no else): process_row returned nothing
NoImageUrl ==
  /\ pc = "resolved"
  /\ ~Truthy(final_image_url)
  /\ failed' = IF mode = "excel" THEN Append(failed, i + 2) ELSE failed
  /\ i' = i + 1
  /\ pc' = "loop"
  /\ RowReset
  /\ UNCHANGED <<config, mode, count, placed, slides, report>>

\* ------------------------------------------------------------ the reports
\* line 427: the failed rows are listed up to this many
FailedListLimit == 20

\* lines 415-428
ExcelReport ==
  [kind |-> IF Len(failed) > 0 THEN "warning" ELSE "success",
   count |-> count, total |-> total, nfailed |-> Len(failed),
   listed |-> Len(failed) > 0 /\ Len(failed) <= FailedListLimit,
   rows |-> IF Len(failed) > 0 /\ Len(failed) <= FailedListLimit
            THEN failed ELSE <<>>]

\* line 460
PptReport ==
  [kind |-> "success", count |-> count, total |-> 0, nfailed |-> 0,
   listed |-> FALSE, rows |-> <<>>]

\* lines 415-428 and 456-460: the loop is over
Finish ==
  /\ pc = "loop"
  /\ i = total
  /\ report' = IF mode = "excel" THEN ExcelReport ELSE PptReport
  /\ pc' = "done"
  /\ UNCHANGED <<config, mode, i, row, final_image_url, ran, netcalls, downloads,
                 request, resp, img, log, count, failed, placed, slides>>

Next ==
  \/ ClickNoColumns
  \/ ClickExcel
  \/ ClickPpt
  \/ ProcessRow
  \/ PageRetry
  \/ PageFails
  \/ PageBadStatus
  \/ PageParsed
  \/ StartDownload
  \/ ImageRetry
  \/ ImageFails
  \/ ImageResponse
  \/ ImageErrorResponse
  \/ Verify
  \/ Decode
  \/ PlaceImage
  \/ SaveRaises
  \/ DownloadFailed
  \/ NoImageUrl
  \/ Finish

Spec == Init /\ [][Next]_vars


\* ------------------------------------------------------------ properties
TypeOK ==
  /\ pc \in {"idle", "refused", "loop", "page_get", "resolved", "image_get",
             "verify", "decode", "outcome", "crashed", "done"}
  /\ i \in 0..total
  /\ count \in 0..total

\* A row is being processed: process_row has been entered for it and its outcome
\* is not yet recorded.
InRow == pc \in {"page_get", "resolved", "image_get", "verify", "decode",
                 "outcome", "crashed"}

\* A cell that holds no value: missing, NaN, the string 'nan', or whitespace only.
CellEmpty(c) ==
  \/ c \in {None, NaN}
  \/ \A k \in 1..Len(c) : c[k] \in Whitespace
  \/ Strip(c) = Str_nan

\* The looks-like-an-image heuristic as the specification words it: a known
\* extension or a known vendor CDN substring, letter case ignored.
KnownExtensions == {Ext_jpg, Ext_jpeg, Ext_png, Ext_gif, Ext_webp}
KnownCdns == {Cdn_etsystatic, Cdn_xcdn, Cdn_potterybarn, Cdn_cloudfront}
LooksLikeImage(c) ==
  LET low == Lower(c)
  IN  \E x \in KnownExtensions \cup KnownCdns : Contains(low, x)

\* The strategies of the URL column, and a scraping strategy, in a row's trace.
UrlStrategies == {"direct_link", "meta", "jsonld"}
ScrapeStrategies == {"meta", "jsonld"}
RanAny(S) == \E k \in 1..Len(ran) : ran[k].s \in S

\* C1: when the IMAGE URL value of a row is present and looks like an image,
\* process_row returns exactly that (stripped) value, no URL-column strategy runs
\* and no HTTP attempt is made while resolving, whatever the URL value is; so a
\* URL-column strategy runs only for a row whose IMAGE URL value is absent or
\* fails the heuristic.
C1_TwoTierPriority ==
  (InRow /\ ~CellEmpty(row.image) /\ LooksLikeImage(row.image))
    => /\ pc # "page_get"
       /\ final_image_url = Strip(row.image)
       /\ netcalls = 0
       /\ ~RanAny(UrlStrategies)

\* C1's case: an accepted IMAGE URL value (here one with surrounding blanks and
\* one in upper case) beside a URL value that would otherwise be scraped.
C1_Witness ==
  /\ pc = "resolved"
  /\ row.url = Url_page
  /\ row.image \in {Img_padded, Img_upper}
  /\ final_image_url = Strip(row.image)

\* A URL value that belongs to an excluded domain: its text names etsy.com or
\* next.co.uk, in any letter case (host names are case-insensitive).
BelongsToExcluded(c) ==
  /\ ~CellEmpty(c)
  /\ LET low == Lower(c) IN Contains(low, Dom_etsy) \/ Contains(low, Dom_next)

\* C2: a row whose URL value belongs to an excluded domain is never scraped: no
\* page GET is issued for it and neither the meta-tag nor the structured-data
\* strategy runs.
C2_ExcludedNeverScraped ==
  (InRow /\ BelongsToExcluded(row.url))
    => /\ pc # "page_get"
       /\ netcalls = 0
       /\ ~RanAny(ScrapeStrategies)

\* The fixed priority of the strategies.
Rank(s) == CASE s = "image_column" -> 1
             [] s = "direct_link" -> 2
             [] s = "meta" -> 3
             [] s = "jsonld" -> 4

\* C3: within a row the strategies run in the fixed priority order, a strategy
\* that yields a non-empty candidate is the last to run, what process_row returns
\* is that one candidate, and download_direct_image is called at most once.
C3_FirstSuccessWins ==
  InRow
    => /\ \A k \in 1..(Len(ran) - 1) : Rank(ran[k].s) < Rank(ran[k + 1].s)
       /\ \A k \in 1..Len(ran) : Truthy(ran[k].got) => k = Len(ran)
       /\ (pc # "page_get" /\ Truthy(final_image_url))
            => (Len(ran) > 0 /\ ran[Len(ran)].got = final_image_url)
       /\ (pc # "page_get" /\ ~Truthy(final_image_url))
            => \A k \in 1..Len(ran) : ~Truthy(ran[k].got)
       /\ downloads <= 1
       /\ (downloads = 1 => Truthy(final_image_url))

\* C3's case: three strategies ran, the third (meta tags) yielded the candidate,
\* and it is being downloaded.
C3_Witness ==
  /\ pc = "image_get"
  /\ Len(ran) = 3
  /\ ran[3].s = "meta"
  /\ final_image_url = ran[3].got
  /\ downloads = 1

\* The sheet rows of a Generate Excel run that have an outcome.
SheetRows == {k + 2 : k \in 0..(total - 1)}
FailedSet == {failed[k] : k \in 1..Len(failed)}

\* C4: a Generate Excel run is never aborted by a row, and when it is over every
\* row has exactly one outcome at its own sheet row: an image placed or an entry
\* of failed, count + len(failed) = N, failed in strictly increasing order.
C4_OneOutcomePerRow ==
  (mode = "excel" /\ pc \in {"done", "crashed"})
    => /\ pc = "done"
       /\ \A r \in SheetRows : (r \in placed) # (r \in FailedSet)
       /\ placed \cup FailedSet \subseteq SheetRows
       /\ count = Cardinality(placed)
       /\ count + Len(failed) = total
       /\ \A k \in 1..(Len(failed) - 1) : failed[k] < failed[k + 1]

\* The rows of a finished run that got no image, by the run's own numbering:
\* sheet rows for Excel, row indices for PowerPoint.
RowsWithoutImage ==
  IF mode = "excel" THEN SheetRows \ placed
  ELSE (0..(total - 1)) \ {slides[k] : k \in 1..Len(slides)}

\* C5: every finished run, Excel or PowerPoint, reports the number of rows that
\* succeeded and lists every row that failed.
C5_FinalReport ==
  pc = "done"
    => /\ report.count = total - Cardinality(RowsWithoutImage)
       /\ RowsWithoutImage # {}
            => /\ report.listed
               /\ {report.rows[k] : k \in 1..Len(report.rows)} = RowsWithoutImage

\* The lines download_direct_image prints for a NetworkError.
NetworkFailures == {"timeout", "request_failed"}

\* C6: a row whose accepted IMAGE URL value could not be fetched and that has a
\* URL value is not recorded as failed before the URL value was tried.
C6_NetworkFailureFallsThrough ==
  [][(/\ pc = "outcome"
      /\ img = "None"
      /\ log \in NetworkFailures
      /\ ~CellEmpty(row.image) /\ LooksLikeImage(row.image)
      /\ ~CellEmpty(row.url)
      /\ i' = i + 1)
       => RanAny(UrlStrategies)]_vars

\* C7: a request is retried only on a transient status (429 or 5xx), never on
\* another 4xx, and at most RetryTotal times (RetryTotal + 1 attempts in all).
C7_BoundedRetry ==
  pc \in {"page_get", "image_get"}
    => /\ last # 0 => (last = 429 \/ last >= 500)
       /\ attempts <= RetryTotal
       /\ attempts + retries = RetryTotal

\* C8: a row with no value in either column, or with no URL value and an IMAGE
\* URL value that fails the heuristic, resolves to None with no HTTP attempt and
\* no download.
C8_EmptyRowNoNetwork ==
  (InRow /\ CellEmpty(row.url)
         /\ (CellEmpty(row.image) \/ ~LooksLikeImage(row.image)))
    => /\ pc = "resolved"
       /\ final_image_url = None
       /\ netcalls = 0
       /\ attempts = 0
       /\ downloads = 0

\* C8's cases: both cells empty in different ways, and an IMAGE URL value that
\* fails the heuristic beside an empty URL cell.
C8_Witness ==
  /\ pc = "resolved"
  /\ final_image_url = None
  /\ \/ row.url = Str_nan /\ row.image = Cell_blank
     \/ row.url = Cell_blank /\ row.image = Img_noext

\* C9: Image.open is reached only by a response whose declared content type is
\* an image type and whose body has the minimum length.
C9_SanityCheckBeforeDecode ==
  pc = "decode"
    => /\ Contains(Lower(resp.ctype), Str_image)
       /\ resp.length >= MinImageBytes

\* An absolute URL.
IsAbsolute(u) == Fetchable(u)

\* C10: what the meta-tag strategy returns is an absolute URL (relative and
\* protocol-less contents are resolved), and the JSON-LD blocks are consulted
\* only after the meta tags yielded nothing.
C10_MetaTagStrategy ==
  InRow
    => /\ \A k \in 1..Len(ran) :
            (ran[k].s = "meta" /\ Truthy(ran[k].got)) => IsAbsolute(ran[k].got)
       /\ \A k \in 1..Len(ran) :
            ran[k].s = "jsonld" => (k > 1 /\ ran[k - 1].s = "meta"
                                    /\ ran[k - 1].got = None)

====
